---- MODULE Spec2Model ----
(***************************************************************************)
(* Model of the credential and session subsystem of go-chat-kafka:         *)
(* AuthService (Register / Login / RefreshToken / Logout), the JWT codec   *)
(* of pkg/utils/jwt.go, the password helpers of pkg/utils/password.go and  *)
(* the users / refresh_tokens tables they read and write; and of           *)
(* UserService.AddFriend / AcceptFriend over the friendships table and     *)
(* MessageService.SendMessage over the messages table and the producer.    *)
(*                                                                         *)
(* Strings are sequences of one-character strings, so that len() and       *)
(* slicing mean what they mean in Go.  A Go error is a record              *)
(* [msg, cause]: fmt.Errorf("msg: %w", err) keeps the cause's text, a      *)
(* plain fmt.Errorf("msg") has the empty cause.  Every service call is     *)
(* split at its store calls, which is where other calls can interleave.    *)
(***************************************************************************)
EXTENDS Integers, Sequences, FiniteSets, Bags, TLC

VARIABLES
    users,           \* table users: set of rows
    refresh_tokens,  \* table refresh_tokens: set of rows
    now,             \* the wall clock, in hours
    calls,           \* bag of the calls in flight: operation, position, locals, result
    cfg,             \* config.JWTConfig
    faulty,          \* whether store / crypto calls may fail in this run
    returned,        \* history: refresh tokens handed back to a caller
    revoked,         \* history: tokens given to a Logout that returned nil
    lab,             \* the helpers of pkg/utils applied on their own: inputs, results
    friendships,     \* table friendships: set of rows
    messages,        \* table messages: set of rows
    bus,             \* MessageService.producer: whether one is set, the events it took, in order
    chat             \* bag of the calls of UserService / MessageService in flight

vars == <<users, refresh_tokens, now, calls, cfg, faulty, returned, revoked, lab,
          friendships, messages, bus, chat>>

\* state of UserService and MessageService
chatVars == <<friendships, messages, bus, chat>>

----------------------------------------------------------------------------
(* Bounds of the model *)

NumProcs == 2     \* calls in flight at once
MaxSessions == 2  \* refresh sessions issued in one run
MaxTicks == 1     \* clock advances in one run

(* Program constants *)

AccessExpiration == 1        \* 1 * time.Hour
RefreshExpiration == 168     \* 7 * 24 * time.Hour
BcryptCost == 12
BcryptKeyLen == 72           \* bytes of key bcrypt reads
MinUsernameLen == 3
MaxUsernameLen == 50
MinPasswordLen == 6


----------------------------------------------------------------------------
(* Strings *)

EmptyStr == <<>>

S_ana == <<"a", "n", "a">>
S_bob == <<"b", "o", "b">>
S_al == <<"a", "l">>
S_anaMail == <<"a", "@", "x", ".", "y">>
S_bobMail == <<"b", "@", "x", ".", "y">>
S_badMail == <<"a", "b", ".", "c">>
S_secret == <<"s", "e", "c", "r", "e", "t">>
S_hunter == <<"h", "u", "n", "t", "e", "r", "2">>
S_short == <<"a", "b", "c">>

RegisterInput(username, email, password) ==
    [username |-> username, email |-> email, password |-> password]
LoginInput(email, password) == [email |-> email, password |-> password]

\* the requests callers send
RegisterInputs ==
    {RegisterInput(S_ana, S_anaMail, S_secret), RegisterInput(S_ana, S_bobMail, S_secret),
     RegisterInput(S_bob, S_anaMail, S_secret), RegisterInput(S_bob, S_badMail, S_secret)}
LoginInputs ==
    {LoginInput(S_anaMail, S_secret), LoginInput(S_anaMail, S_hunter),
     LoginInput(S_bobMail, S_secret), LoginInput(EmptyStr, S_secret)}

----------------------------------------------------------------------------
(* Errors *)

NoErr == [msg |-> "", cause |-> ""]
Errorf(m) == [msg |-> m, cause |-> ""]
ErrText(e) == IF e.cause = "" THEN e.msg ELSE e.msg \o ": " \o e.cause
Wrapf(m, e) == [msg |-> m, cause |-> ErrText(e)]     \* fmt.Errorf("m: %w", e)

\* errors of the libraries below the services
ErrNoRows == Errorf("no rows in result set")                              \* pgx.ErrNoRows
ErrUnique == Errorf("duplicate key value violates unique constraint")     \* SQLSTATE 23505
ErrConn == Errorf("connection refused")
ErrSign == Errorf("key is of invalid type")
ErrBcrypt == Errorf("bcrypt: password length exceeds 72 bytes")
ErrScan == Errorf("cannot parse UUID")

----------------------------------------------------------------------------
(* pkg/utils UUID helpers.  A pgtype.UUID is [Bytes, Valid]; its string    *)
(* form is the text "uuid:" followed by the digit of the byte value.       *)

Digit == <<"1", "2", "3", "4", "5", "6", "7", "8", "9">>
NullUUID == [Bytes |-> 0, Valid |-> FALSE]
MkUUID(n) == [Bytes |-> n, Valid |-> TRUE]

UUIDToString(u) == IF ~u.Valid THEN EmptyStr ELSE <<"uuid:", Digit[u.Bytes]>>

\* pgtype.UUID.Scan of a string: NullUUID stands for the scan error
ScanUUID(s) ==
    IF Len(s) = 2 /\ s[1] = "uuid:" /\ \E n \in DOMAIN Digit : Digit[n] = s[2]
    THEN MkUUID(CHOOSE n \in DOMAIN Digit : Digit[n] = s[2])
    ELSE NullUUID

----------------------------------------------------------------------------
(* pkg/utils/password.go over bcrypt: the digest embeds cost and salt.      *)
(* bcrypt keys its cipher with the password and a closing NUL, repeated    *)
(* to fill BcryptKeyLen bytes: what lies beyond is not read.               *)

NoHash == [cost |-> 0, salt |-> 0, pw |-> EmptyStr]
NumSalts == 1
Salts == 1..NumSalts

NUL == "x00"

BcryptKey(password) ==
    LET ckey == password \o <<NUL>>
    IN  [i \in 1..BcryptKeyLen |-> ckey[((i - 1) % Len(ckey)) + 1]]

\* bcrypt.GenerateFromPassword refuses a password longer than the key
\* (releases of golang.org/x/crypto that have ErrPasswordTooLong)
TooLong(password) == Len(password) > BcryptKeyLen

HashPassword(password, salt) ==
    [cost |-> BcryptCost, salt |-> salt, pw |-> BcryptKey(password)]

CheckPassword(password, hash) ==
    /\ hash.cost > 0
    /\ [cost |-> hash.cost, salt |-> hash.salt, pw |-> BcryptKey(password)] = hash

----------------------------------------------------------------------------
(* pkg/utils/jwt.go over golang-jwt/v5.  A token string is a record: the   *)
(* header's alg, the payload's claims, and sigKey, the key under which the *)
(* signature segment is a valid MAC of exactly this header and payload     *)
(* (the empty string when it is a valid MAC under no key).  pad is the     *)
(* two bits of the signature segment's last base64url character that carry *)
(* no signature bit: SignedString writes them as 0, and ParseWithClaims,   *)
(* called without jwt.WithStrictDecoding, does not look at them.  Claims   *)
(* travel as JSON: json.Marshal writes a byte that is no valid UTF-8 as    *)
(* U+FFFD.                                                                 *)

NoDate == 0 - 1
HMACFamily == {"HS256", "HS384", "HS512"}

\* a byte that is not valid UTF-8, and the replacement character
BadByte == "xFF"
ReplacementChar == "uFFFD"

\* a string as encoding/json writes it and reads it back
ToValidUTF8(str) ==
    [i \in DOMAIN str |-> IF str[i] = BadByte THEN ReplacementChar ELSE str[i]]

EmptyToken ==
    [form |-> "empty", alg |-> "", sigKey |-> "", user_id |-> EmptyStr,
     username |-> EmptyStr, email |-> EmptyStr, sub |-> EmptyStr,
     exp |-> NoDate, iat |-> NoDate, nbf |-> NoDate, jti |-> 0, pad |-> 0]

\* faulty variant: the username and email claims change places
GenerateAccessToken_Swapped(userID, username, email, secret, duration, t, jti) ==
    [form |-> "jwt", alg |-> "HS256", sigKey |-> secret,
     user_id |-> ToValidUTF8(userID), username |-> ToValidUTF8(email),
     email |-> ToValidUTF8(username), sub |-> EmptyStr,
     exp |-> t + duration, iat |-> t, nbf |-> t, jti |-> jti, pad |-> 0]

GenerateAccessToken(userID, username, email, secret, duration, t, jti) ==
    [form |-> "jwt", alg |-> "HS256", sigKey |-> secret,
     user_id |-> ToValidUTF8(userID), username |-> ToValidUTF8(username),
     email |-> ToValidUTF8(email), sub |-> EmptyStr,
     exp |-> t + duration, iat |-> t, nbf |-> t, jti |-> jti, pad |-> 0]

\* faulty variant: the refresh token carries no ID claim
GenerateRefreshToken_NoJti(userID, secret, duration, t, jti) ==
    [form |-> "jwt", alg |-> "HS256", sigKey |-> secret, user_id |-> EmptyStr,
     username |-> EmptyStr, email |-> EmptyStr, sub |-> ToValidUTF8(userID),
     exp |-> t + duration, iat |-> t, nbf |-> NoDate, jti |-> 0, pad |-> 0]

GenerateRefreshToken(userID, secret, duration, t, jti) ==
    [form |-> "jwt", alg |-> "HS256", sigKey |-> secret, user_id |-> EmptyStr,
     username |-> EmptyStr, email |-> EmptyStr, sub |-> ToValidUTF8(userID),
     exp |-> t + duration, iat |-> t, nbf |-> NoDate, jti |-> jti, pad |-> 0]

\* faulty variant: the key function returns the secret whatever the method
Keyfunc_AnyMethod(tok, secret) == [err |-> "", key |-> secret, given |-> TRUE]

\* the key function both validators pass to jwt.ParseWithClaims
Keyfunc(tok, secret) ==
    IF tok.alg \notin HMACFamily
    THEN [err |-> "metodo de assinatura inesperado", key |-> "", given |-> FALSE]
    ELSE [err |-> "", key |-> secret, given |-> TRUE]

\* token.Method.Verify with a []byte key: an HMAC method compares MACs, the
\* method none and the asymmetric methods refuse a []byte key
MethodVerify(tok, key) == tok.alg \in HMACFamily /\ tok.sigKey = key

\* faulty variant: the expiry of the token is not looked at
ParseWithClaims_NoExpiry(tok, secret, t) ==
    IF tok.form # "jwt" THEN "token is malformed"
    ELSE IF Keyfunc(tok, secret).err # "" THEN "token is unverifiable"
    ELSE IF ~MethodVerify(tok, Keyfunc(tok, secret).key) THEN "token signature is invalid"
    ELSE IF tok.nbf # NoDate /\ t < tok.nbf THEN "token is not valid yet"
    ELSE ""

\* faulty variant: a token is still good at the instant of its expiry
ParseWithClaims_AtExpiry(tok, secret, t) ==
    IF tok.form # "jwt" THEN "token is malformed"
    ELSE IF Keyfunc(tok, secret).err # "" THEN "token is unverifiable"
    ELSE IF ~MethodVerify(tok, Keyfunc(tok, secret).key) THEN "token signature is invalid"
    ELSE IF tok.exp # NoDate /\ t > tok.exp THEN "token has expired"
    ELSE IF tok.nbf # NoDate /\ t < tok.nbf THEN "token is not valid yet"
    ELSE ""

\* jwt.ParseWithClaims with the key function of jwt.go: "" when the token
\* is accepted, else the library's reason
ParseWithClaims(tok, secret, t) ==
    IF tok.form # "jwt" THEN "token is malformed"
    ELSE IF Keyfunc(tok, secret).err # "" THEN "token is unverifiable"
    ELSE IF ~MethodVerify(tok, Keyfunc(tok, secret).key) THEN "token signature is invalid"
    ELSE IF tok.exp # NoDate /\ ~(t < tok.exp) THEN "token has expired"
    ELSE IF tok.nbf # NoDate /\ t < tok.nbf THEN "token is not valid yet"
    ELSE ""

\* faulty variant: an access token is good only while the session it was
\* issued with is in the store
ValidateAccessToken_Sessions(tok, secret, t) ==
    LET e == ParseWithClaims(tok, secret, t) IN
    IF e # "" THEN [err |-> Wrapf("erro ao parsear token", Errorf(e)), claims |-> EmptyToken]
    ELSE IF \A r \in refresh_tokens : r.token.jti # tok.jti
    THEN [err |-> Errorf("token invalido"), claims |-> EmptyToken]
    ELSE [err |-> NoErr, claims |-> tok]

ValidateAccessToken(tok, secret, t) ==
    LET e == ParseWithClaims(tok, secret, t) IN
    IF e # "" THEN [err |-> Wrapf("erro ao parsear token", Errorf(e)), claims |-> EmptyToken]
    ELSE [err |-> NoErr, claims |-> tok]

ValidateRefreshToken(tok, secret, t) ==
    LET e == ParseWithClaims(tok, secret, t) IN
    IF e # "" THEN [err |-> Wrapf("erro ao parsear refresh token", Errorf(e)), sub |-> EmptyStr]
    ELSE [err |-> NoErr, sub |-> tok.sub]

\* token strings a caller can build without either secret
GarbageToken == [EmptyToken EXCEPT !.form = "garbage"]
NoneAlgToken ==
    [GenerateRefreshToken(UUIDToString(MkUUID(1)), "", 100000, 0, 0) EXCEPT !.alg = "none"]
EvilToken == GenerateRefreshToken(UUIDToString(MkUUID(1)), "evil", 100000, 0, 0)
Forged == {EvilToken}

----------------------------------------------------------------------------
(* AuthService.validateRegisterInput and its helpers *)

Slice(s, i, j) == SubSeq(s, i + 1, j)     \* Go's s[i:j]

containsMiddle(s, substr) ==
    \E i \in 0..(Len(s) - Len(substr)) : Slice(s, i, i + Len(substr)) = substr

contains(s, substr) ==
    /\ Len(s) > 0
    /\ Len(substr) > 0
    /\ Len(s) >= Len(substr)
    /\ s # substr
    /\ \/ Slice(s, 0, Len(substr)) = substr
       \/ Slice(s, Len(s) - Len(substr), Len(s)) = substr
       \/ Len(s) > Len(substr) /\ containsMiddle(s, substr)

validateRegisterInput(input) ==
    IF input.username = EmptyStr THEN Errorf("username e obrigatorio")
    ELSE IF Len(input.username) < MinUsernameLen \/ Len(input.username) > MaxUsernameLen
        THEN Errorf("username deve ter entre 3 e 50 caracteres")
    ELSE IF input.email = EmptyStr THEN Errorf("email e obrigatorio")
    ELSE IF ~contains(input.email, <<"@">>) \/ ~contains(input.email, <<".">>)
        THEN Errorf("email invalido")
    ELSE IF input.password = EmptyStr THEN Errorf("senha e obrigatoria")
    ELSE IF Len(input.password) < MinPasswordLen
        THEN Errorf("senha deve ter no minimo 6 caracteres")
    ELSE NoErr

----------------------------------------------------------------------------
(* The repository queries the services call (users, refresh_tokens) *)

NoUser == [id |-> NullUUID, username |-> EmptyStr, email |-> EmptyStr, password_hash |-> NoHash]
NoRow == [id |-> 0, user_id |-> NullUUID, token |-> EmptyToken, expires_at |-> NoDate]

GetUserByEmail(email) == {u \in users : u.email = email}
GetUserByUsername(username) == {u \in users : u.username = username}
GetUserByID(id) == {u \in users : u.id = id}

\* faulty variant: table users has no unique constraint
UniqueViolation_Off(username, email) == FALSE

\* the unique constraints of table users on username and email
UniqueViolation(username, email) ==
    \E u \in users : u.username = username \/ u.email = email

\* INSERT INTO users ... RETURNING *: the row it inserts
CreateUser(username, email, passwordHash) ==
    [id |-> MkUUID(Cardinality(users) + 1), username |-> username, email |-> email,
     password_hash |-> passwordHash]

GetRefreshToken(tok) == {r \in refresh_tokens : r.token = tok}

CreateRefreshToken(rowId, userID, tok, expiresAt) ==
    [id |-> rowId, user_id |-> userID, token |-> tok, expires_at |-> expiresAt]

\* DELETE FROM refresh_tokens WHERE token = $1: the rows that stay
DeleteRefreshToken(tok) == {r \in refresh_tokens : r.token # tok}

\* outcomes of one call to the store or to a crypto library
Outcomes == IF faulty THEN {"ok", "fail"} ELSE {"ok"}

----------------------------------------------------------------------------
(* Calls in flight *)

NoInput == [username |-> EmptyStr, email |-> EmptyStr, password |-> EmptyStr, token |-> EmptyToken]
NoUserResp == [ID |-> EmptyStr, Username |-> EmptyStr, Email |-> EmptyStr]
NoPair == [AccessToken |-> EmptyToken, RefreshToken |-> EmptyToken]
NoResult == [err |-> NoErr, user |-> NoUserResp, tokens |-> NoPair]
NoHist == [expired0 |-> FALSE, present0 |-> FALSE, revoked0 |-> FALSE, emailTaken0 |-> FALSE,
           nameTaken0 |-> FALSE]

BlankCall ==
    [op |-> "none", pc |-> "none", input |-> NoInput, user |-> NoUser,
     userID |-> EmptyStr, tokenRecord |-> NoRow, res |-> NoResult, hist |-> NoHist]

UserResponse(u) ==
    [ID |-> UUIDToString(u.id), Username |-> u.username, Email |-> u.email]

\* a call returns: its locals go, its result stays until the caller takes it
Failed(c, e) ==
    [c EXCEPT !.pc = "done", !.user = NoUser, !.userID = EmptyStr, !.tokenRecord = NoRow,
              !.res = [NoResult EXCEPT !.err = e]]
Succeeded(c, u, pair) ==
    [c EXCEPT !.pc = "done", !.user = NoUser, !.userID = EmptyStr, !.tokenRecord = NoRow,
              !.res = [err |-> NoErr, user |-> u, tokens |-> pair]]

InFlight == BagToSet(calls)
Done(c) == c.pc = "done"
Ok(c) == Done(c) /\ c.res.err = NoErr

\* what RefreshToken checks of a token at time t, store calls not failing
Accepted(tok, us, rts, t) ==
    /\ tok # EmptyToken
    /\ ValidateRefreshToken(tok, cfg.RefreshSecret, t).err = NoErr
    /\ \E r \in rts : r.token = tok
    /\ \E u \in us : u.id = ScanUUID(tok.sub)

\* the history a call records as it starts
Hist(input) ==
    [expired0 |-> input.token.exp # NoDate /\ input.token.exp <= now,
     present0 |-> \E r \in refresh_tokens : r.token = input.token,
     revoked0 |-> input.token \in revoked,
     emailTaken0 |-> GetUserByEmail(input.email) # {},
     nameTaken0 |-> GetUserByUsername(input.username) # {}]

NewCall(op, input, pc0) ==
    [BlankCall EXCEPT !.op = op, !.pc = pc0, !.input = input, !.hist = Hist(input)]

\* A finished call stays among the calls, with its result, until the caller
\* takes it (Return).  Taking a result touches nothing but that call, so it
\* is scheduled first: the services' steps run while no result is waiting.
Quiet == \A c \in InFlight : ~Done(c)

\* a call starts and runs up to its first store call, or fails before it
Begin(c, e) ==
    /\ Quiet
    /\ BagCardinality(calls) < NumProcs
    /\ calls' = calls (+) SetToBag({IF e = NoErr THEN c ELSE Failed(c, e)})

At(c, op, pc) == Quiet /\ c.op = op /\ c.pc = pc

\* call c moves on to d
Set(c, d) == calls' = (calls (-) SetToBag({c})) (+) SetToBag({d})

----------------------------------------------------------------------------
(* uuid.New() and the table's generated ids: a value that no token and no  *)
(* row still in the system carries.  One draw serves the jti of both       *)
(* tokens of a pair and the id of the new row: values drawn for different  *)
(* columns are never compared with each other.                             *)

\* faulty variant: a value is free again once no row carries it
InUse_Rows == {r.id : r \in refresh_tokens}

InUse ==
    {t.jti : t \in returned} \cup {r.id : r \in refresh_tokens}

NewUUID == CHOOSE k \in 1..(Cardinality(InUse) + 1) : k \notin InUse

(* AuthService.generateTokens followed by AuthService.saveRefreshToken,    *)
(* the tail of Register and Login.                                         *)

\* faulty variant: the refresh token names the account by its username
generateTokens_ByName(u, k) ==
    [AccessToken |-> GenerateAccessToken(UUIDToString(u.id), u.username, u.email,
                                         cfg.AccessSecret, AccessExpiration, now, k),
     RefreshToken |-> GenerateRefreshToken(u.username, cfg.RefreshSecret,
                                           RefreshExpiration, now, k)]

generateTokens(u, k) ==
    [AccessToken |-> GenerateAccessToken(UUIDToString(u.id), u.username, u.email,
                                         cfg.AccessSecret, AccessExpiration, now, k),
     RefreshToken |-> GenerateRefreshToken(UUIDToString(u.id), cfg.RefreshSecret,
                                           RefreshExpiration, now, k)]

\* faulty variant: the new session takes the place of the account's older ones
saveRefreshToken_Replace(k, userID, tok) ==
    refresh_tokens' = {r \in refresh_tokens : r.user_id # userID} \cup
        {CreateRefreshToken(k, userID, tok, now + RefreshExpiration)}

saveRefreshToken(k, userID, tok) ==
    refresh_tokens' = refresh_tokens \cup
        {CreateRefreshToken(k, userID, tok, now + RefreshExpiration)}

IssueAndSave(c, errGen, errSave) ==
    /\ Cardinality(returned) < MaxSessions
    /\ \E sign \in Outcomes, store \in Outcomes :
        LET k == NewUUID
            tokens == generateTokens(c.user, k)
        IN  IF sign = "fail"
            THEN /\ Set(c, Failed(c, Wrapf(errGen, ErrSign)))
                 /\ UNCHANGED <<refresh_tokens, returned>>
            ELSE IF store = "fail"
            THEN /\ Set(c, Failed(c, Wrapf(errSave, ErrConn)))
                 /\ UNCHANGED <<refresh_tokens, returned>>
            ELSE /\ saveRefreshToken(k, c.user.id, tokens.RefreshToken)
                 /\ Set(c, Succeeded(c, UserResponse(c.user), tokens))
                 /\ returned' = returned \cup {tokens.RefreshToken}
    /\ UNCHANGED <<users, now, cfg, faulty, lab, chatVars, revoked>>

----------------------------------------------------------------------------
(* AuthService.Register *)

RegisterStart ==
    /\ \E in \in RegisterInputs :
        LET input == [NoInput EXCEPT !.username = in.username, !.email = in.email,
                                     !.password = in.password]
        IN Begin(NewCall("Register", input, "reg_email"), validateRegisterInput(input))
    /\ UNCHANGED <<users, refresh_tokens, now, cfg, faulty, lab, chatVars, returned, revoked>>

\* faulty variant: any error of the email lookup counts as "not found"
RegisterCheckEmail_Lenient(c) ==
    /\ At(c, "Register", "reg_email")
    /\ \E store \in Outcomes :
        IF store = "ok" /\ GetUserByEmail(c.input.email) # {}
        THEN Set(c, Failed(c, Errorf("email ja cadastrado")))
        ELSE Set(c, [c EXCEPT !.pc = "reg_username"])
    /\ UNCHANGED <<users, refresh_tokens, now, cfg, faulty, lab, chatVars, returned, revoked>>

RegisterCheckEmail(c) ==
    /\ At(c, "Register", "reg_email")
    /\ \E store \in Outcomes :
        IF store = "fail"
        THEN Set(c, Failed(c, Wrapf("erro ao verificar email", ErrConn)))
        ELSE IF GetUserByEmail(c.input.email) # {}
        THEN Set(c, Failed(c, Errorf("email ja cadastrado")))
        ELSE Set(c, [c EXCEPT !.pc = "reg_username"])
    /\ UNCHANGED <<users, refresh_tokens, now, cfg, faulty, lab, chatVars, returned, revoked>>

\* faulty variant: the username lookup is left out
RegisterCheckUsername_Skip(c) ==
    /\ At(c, "Register", "reg_username")
    /\ Set(c, [c EXCEPT !.pc = "reg_create"])
    /\ UNCHANGED <<users, refresh_tokens, now, cfg, faulty, lab, chatVars, returned, revoked>>

RegisterCheckUsername(c) ==
    /\ At(c, "Register", "reg_username")
    /\ \E store \in Outcomes :
        IF store = "fail"
        THEN Set(c, Failed(c, Wrapf("erro ao verificar username", ErrConn)))
        ELSE IF GetUserByUsername(c.input.username) # {}
        THEN Set(c, Failed(c, Errorf("username ja cadastrado")))
        ELSE Set(c, [c EXCEPT !.pc = "reg_create"])
    /\ UNCHANGED <<users, refresh_tokens, now, cfg, faulty, lab, chatVars, returned, revoked>>

RegisterCreateUser(c) ==
    /\ At(c, "Register", "reg_create")
    /\ \E hash \in Outcomes, store \in Outcomes, salt \in Salts :
        LET user == CreateUser(c.input.username, c.input.email,
                               HashPassword(c.input.password, salt))
        IN  IF hash = "fail"
            THEN /\ Set(c, Failed(c, Wrapf("erro ao criar hash da senha", ErrBcrypt)))
                 /\ UNCHANGED users
            ELSE IF store = "fail"
            THEN /\ Set(c, Failed(c, Wrapf("erro ao criar usuario", ErrConn)))
                 /\ UNCHANGED users
            ELSE IF UniqueViolation(c.input.username, c.input.email)
            THEN /\ Set(c, Failed(c, Wrapf("erro ao criar usuario", ErrUnique)))
                 /\ UNCHANGED users
            ELSE /\ users' = users \cup {user}
                 /\ Set(c, [c EXCEPT !.pc = "reg_save", !.user = user])
    /\ UNCHANGED <<refresh_tokens, now, cfg, faulty, lab, chatVars, returned, revoked>>

RegisterSave(c) ==
    /\ At(c, "Register", "reg_save")
    /\ IssueAndSave(c, "erro ao gerar tokens", "erro ao salvar refresh token")

----------------------------------------------------------------------------
(* AuthService.Login *)

RejectLogin(input) ==
    IF input.email = EmptyStr \/ input.password = EmptyStr
    THEN Errorf("email e senha sao obrigatorios")
    ELSE NoErr

LoginStart ==
    /\ \E in \in LoginInputs :
        LET input == [NoInput EXCEPT !.email = in.email, !.password = in.password]
        IN Begin(NewCall("Login", input, "login_get"), RejectLogin(input))
    /\ UNCHANGED <<users, refresh_tokens, now, cfg, faulty, lab, chatVars, returned, revoked>>

\* faulty variant: a wrong password gets a message of its own
LoginGetUser_Leaky(c) ==
    /\ At(c, "Login", "login_get")
    /\ \E store \in Outcomes :
        LET found == GetUserByEmail(c.input.email)
        IN  IF store = "fail"
            THEN Set(c, Failed(c, Wrapf("erro ao buscar usuario", ErrConn)))
            ELSE IF found = {}
            THEN Set(c, Failed(c, Errorf("credenciais invalidas")))
            ELSE \E user \in found :
                IF ~CheckPassword(c.input.password, user.password_hash)
                THEN Set(c, Failed(c, Errorf("senha incorreta")))
                ELSE Set(c, [c EXCEPT !.pc = "login_save", !.user = user])
    /\ UNCHANGED <<users, refresh_tokens, now, cfg, faulty, lab, chatVars, returned, revoked>>

LoginGetUser(c) ==
    /\ At(c, "Login", "login_get")
    /\ \E store \in Outcomes :
        LET found == GetUserByEmail(c.input.email)
        IN  IF store = "fail"
            THEN Set(c, Failed(c, Wrapf("erro ao buscar usuario", ErrConn)))
            ELSE IF found = {}
            THEN Set(c, Failed(c, Errorf("credenciais invalidas")))
            ELSE \E user \in found :
                IF ~CheckPassword(c.input.password, user.password_hash)
                THEN Set(c, Failed(c, Errorf("credenciais invalidas")))
                ELSE Set(c, [c EXCEPT !.pc = "login_save", !.user = user])
    /\ UNCHANGED <<users, refresh_tokens, now, cfg, faulty, lab, chatVars, returned, revoked>>

LoginSave(c) ==
    /\ At(c, "Login", "login_save")
    /\ IssueAndSave(c, "erro ao gerar tokens", "erro ao salvar refresh token")

----------------------------------------------------------------------------
(* AuthService.RefreshToken *)

\* token strings a caller can present: the refresh tokens handed back so far,
\* the ones it can build itself, and the empty string
Presentable == returned \cup Forged \cup {EmptyToken}

RejectRefresh(tok, t) ==
    IF tok = EmptyToken THEN Errorf("refresh token e obrigatorio")
    ELSE LET v == ValidateRefreshToken(tok, cfg.RefreshSecret, t) IN
         IF v.err # NoErr THEN Wrapf("refresh token invalido", v.err) ELSE NoErr

\* faulty variant: turning a token down also deletes its row
RefreshStart_Sweep ==
    /\ \E tok \in Presentable :
        LET input == [NoInput EXCEPT !.token = tok]
            c == [NewCall("RefreshToken", input, "ref_get") EXCEPT
                    !.userID = ValidateRefreshToken(tok, cfg.RefreshSecret, now).sub]
        IN  /\ Begin(c, RejectRefresh(tok, now))
            /\ refresh_tokens' = IF RejectRefresh(tok, now) = NoErr THEN refresh_tokens
                                 ELSE DeleteRefreshToken(tok)
    /\ UNCHANGED <<users, now, cfg, faulty, lab, chatVars, returned, revoked>>

RefreshStart ==
    /\ \E tok \in Presentable :
        LET input == [NoInput EXCEPT !.token = tok]
            c == [NewCall("RefreshToken", input, "ref_get") EXCEPT
                    !.userID = ValidateRefreshToken(tok, cfg.RefreshSecret, now).sub]
        IN Begin(c, RejectRefresh(tok, now))
    /\ UNCHANGED <<users, refresh_tokens, now, cfg, faulty, lab, chatVars, returned, revoked>>

RefreshGetToken(c) ==
    /\ At(c, "RefreshToken", "ref_get")
    /\ \E store \in Outcomes :
        LET found == GetRefreshToken(c.input.token)
        IN  IF store = "fail"
            THEN Set(c, Failed(c, Wrapf("erro ao buscar refresh token", ErrConn)))
            ELSE IF found = {}
            THEN Set(c, Failed(c, Errorf("refresh token invalido ou expirado")))
            ELSE \E tokenRecord \in found :
                IF ~ScanUUID(c.userID).Valid
                THEN Set(c, Failed(c, Wrapf("userID invalido", ErrScan)))
                ELSE Set(c, [c EXCEPT !.pc = "ref_user", !.tokenRecord = tokenRecord])
    /\ UNCHANGED <<users, refresh_tokens, now, cfg, faulty, lab, chatVars, returned, revoked>>

\* faulty variant: a successful refresh consumes the session
RefreshGetUser_Rotate(c) ==
    /\ At(c, "RefreshToken", "ref_user")
    /\ \E user \in GetUserByID(ScanUUID(c.userID)) :
        LET accessToken == GenerateAccessToken(UUIDToString(user.id), user.username,
                               user.email, cfg.AccessSecret, AccessExpiration,
                               now, NewUUID)
        IN  /\ Set(c, Succeeded(c, NoUserResp,
                       [AccessToken |-> accessToken,
                        RefreshToken |-> c.tokenRecord.token]))
            /\ refresh_tokens' = DeleteRefreshToken(c.tokenRecord.token)
    /\ UNCHANGED <<users, now, cfg, faulty, lab, chatVars, returned, revoked>>

\* faulty variant: a successful refresh answers with a refresh token of its own making
RefreshGetUser_Reissue(c) ==
    /\ At(c, "RefreshToken", "ref_user")
    /\ \E user \in GetUserByID(ScanUUID(c.userID)) :
        Set(c, Succeeded(c, NoUserResp,
                   generateTokens(user, NewUUID)))
    /\ UNCHANGED <<users, refresh_tokens, now, cfg, faulty, lab, chatVars, returned, revoked>>

RefreshGetUser(c) ==
    /\ At(c, "RefreshToken", "ref_user")
    /\ \E store \in Outcomes, sign \in Outcomes :
        LET found == GetUserByID(ScanUUID(c.userID))
        IN  IF store = "fail"
            THEN Set(c, Failed(c, Wrapf("usuario nao encontrado", ErrConn)))
            ELSE IF found = {}
            THEN Set(c, Failed(c, Wrapf("usuario nao encontrado", ErrNoRows)))
            ELSE IF sign = "fail"
            THEN Set(c, Failed(c, Wrapf("erro ao gerar access token", ErrSign)))
            ELSE \E user \in found :
                LET accessToken == GenerateAccessToken(UUIDToString(user.id), user.username,
                                       user.email, cfg.AccessSecret, AccessExpiration,
                                       now, NewUUID)
                IN  Set(c, Succeeded(c, NoUserResp,
                           [AccessToken |-> accessToken,
                            RefreshToken |-> c.tokenRecord.token]))
    /\ UNCHANGED <<users, refresh_tokens, now, cfg, faulty, lab, chatVars, returned, revoked>>

----------------------------------------------------------------------------
(* AuthService.Logout *)

RejectLogout(tok) ==
    IF tok = EmptyToken THEN Errorf("refresh token e obrigatorio") ELSE NoErr

LogoutStart ==
    /\ \E tok \in Presentable :
        LET input == [NoInput EXCEPT !.token = tok]
        IN Begin(NewCall("Logout", input, "logout_del"), RejectLogout(tok))
    /\ UNCHANGED <<users, refresh_tokens, now, cfg, faulty, lab, chatVars, returned, revoked>>

\* faulty variant: Logout answers without deleting the row
LogoutDelete_NoDelete(c) ==
    /\ At(c, "Logout", "logout_del")
    /\ Set(c, Succeeded(c, NoUserResp, NoPair))
    /\ revoked' = revoked \cup {c.input.token}
    /\ UNCHANGED <<users, refresh_tokens, now, cfg, faulty, lab, chatVars, returned>>

\* faulty variant: a Logout that finds no row to delete is an error
LogoutDelete_Strict(c) ==
    /\ At(c, "Logout", "logout_del")
    /\ IF GetRefreshToken(c.input.token) = {}
       THEN /\ Set(c, Failed(c, Errorf("refresh token nao encontrado")))
            /\ UNCHANGED <<refresh_tokens, revoked>>
       ELSE /\ refresh_tokens' = DeleteRefreshToken(c.input.token)
            /\ Set(c, Succeeded(c, NoUserResp, NoPair))
            /\ revoked' = revoked \cup {c.input.token}
    /\ UNCHANGED <<users, now, cfg, faulty, lab, chatVars, returned>>

LogoutDelete(c) ==
    /\ At(c, "Logout", "logout_del")
    /\ \E store \in Outcomes :
        IF store = "fail"
        THEN /\ Set(c, Failed(c, Wrapf("erro ao revogar token", ErrConn)))
             /\ UNCHANGED <<refresh_tokens, revoked>>
        ELSE /\ refresh_tokens' = DeleteRefreshToken(c.input.token)
             /\ Set(c, Succeeded(c, NoUserResp, NoPair))
             /\ revoked' = revoked \cup {c.input.token}
    /\ UNCHANGED <<users, now, cfg, faulty, lab, chatVars, returned>>

----------------------------------------------------------------------------
(* The caller takes the result; the clock *)

Return(c) ==
    /\ Done(c)
    /\ calls' = calls (-) SetToBag({c})
    /\ UNCHANGED <<users, refresh_tokens, now, cfg, faulty, lab, chatVars, returned, revoked>>

\* the clock jumps by the lifetime of a refresh token
Tick ==
    /\ Quiet
    /\ now < MaxTicks * RefreshExpiration
    /\ now' = now + RefreshExpiration
    /\ UNCHANGED <<users, refresh_tokens, calls, cfg, faulty, lab, chatVars, returned, revoked>>

----------------------------------------------------------------------------

(* The helpers of pkg/utils applied on their own.  lab holds one           *)
(* experiment: a token issued at t0 with lifetime ttl, possibly altered by *)
(* its holder, validated at the time lab.clock, which only moves forward;  *)
(* or a password hashed and a guess compared with the digest.              *)

NoLab ==
    [op |-> "none", kind |-> "", userID |-> EmptyStr, username |-> EmptyStr,
     email |-> EmptyStr, secret |-> "", ttl |-> 0, t0 |-> 0,
     issued |-> EmptyToken, tok |-> EmptyToken, clock |-> 0,
     key |-> "", err |-> NoErr, claims |-> EmptyToken, sub |-> EmptyStr,
     lapsed |-> FALSE,
     password |-> EmptyStr, hash |-> NoHash, guess |-> EmptyStr,
     digest |-> NoHash, match |-> FALSE, input |-> NoInput]

InitStore ==
    /\ lab = NoLab
    /\ friendships = {}
    /\ messages = {}
    /\ bus = [producer |-> TRUE, events |-> <<>>]
    /\ chat = EmptyBag
    /\ users = {}
    /\ refresh_tokens = {}
    /\ now = 0
    /\ calls = EmptyBag
    /\ cfg = [AccessSecret |-> "access-key", RefreshSecret |-> "refresh-key"]
    /\ returned = {}
    /\ revoked = {}

\* store and crypto calls may fail
Init == InitStore /\ faulty = TRUE

\* store and crypto calls never fail
InitReliable == InitStore /\ faulty = FALSE

Next ==
    \/ RegisterStart
    \/ \E c \in InFlight : RegisterCheckEmail(c)
    \/ \E c \in InFlight : RegisterCheckUsername(c)
    \/ \E c \in InFlight : RegisterCreateUser(c)
    \/ \E c \in InFlight : RegisterSave(c)
    \/ LoginStart
    \/ \E c \in InFlight : LoginGetUser(c)
    \/ \E c \in InFlight : LoginSave(c)
    \/ RefreshStart
    \/ \E c \in InFlight : RefreshGetToken(c)
    \/ \E c \in InFlight : RefreshGetUser(c)
    \/ LogoutStart
    \/ \E c \in InFlight : LogoutDelete(c)
    \/ \E c \in InFlight : Return(c)
    \/ Tick

Spec == Init /\ [][Next]_vars

SpecReliable == InitReliable /\ [][Next]_vars

----------------------------------------------------------------------------
(* Claims *)

(* Bounds of the experiments *)
MaxTtl == 2      \* lifetimes of the tokens issued
MaxStart == 1    \* times of issue
MaxClock == 4    \* time up to which tokens are validated

S_raw == <<"a", BadByte, "a">>
LabIDs == {UUIDToString(MkUUID(1)), EmptyStr}
LabNames == {S_ana, S_raw}
LabEmails == {S_anaMail, EmptyStr}
LabSecrets == {"key-a", "key-b"}

\* passwords: two short ones, one that fills bcrypt's key, one that is a
\* byte longer, one that repeats a short one after a NUL
P_full == [i \in 1..BcryptKeyLen |-> "a"]
P_over == P_full \o <<"b">>
P_twice == S_secret \o <<NUL>> \o S_secret
LabPasswords == {S_secret, S_hunter, P_full, P_over, P_twice}

authVars == <<users, refresh_tokens, now, calls, cfg, faulty, returned, revoked>>

LabIssueAccess ==
    /\ lab.op = "none"
    /\ \E userID \in LabIDs, username \in LabNames, email \in LabEmails,
          secret \in LabSecrets, ttl \in 1..MaxTtl, t0 \in 0..MaxStart :
        LET tok == GenerateAccessToken(userID, username, email, secret, ttl, t0, 1)
        IN  lab' = [NoLab EXCEPT !.op = "issued", !.kind = "access",
                        !.userID = userID, !.username = username, !.email = email,
                        !.secret = secret, !.ttl = ttl, !.t0 = t0, !.clock = t0,
                        !.issued = tok, !.tok = tok]
    /\ UNCHANGED <<authVars, chatVars>>

LabIssueRefresh ==
    /\ lab.op = "none"
    /\ \E userID \in LabIDs, secret \in LabSecrets, ttl \in 1..MaxTtl, t0 \in 0..MaxStart :
        LET tok == GenerateRefreshToken(userID, secret, ttl, t0, 1)
        IN  lab' = [NoLab EXCEPT !.op = "issued", !.kind = "refresh",
                        !.userID = userID, !.secret = secret, !.ttl = ttl,
                        !.t0 = t0, !.clock = t0, !.issued = tok, !.tok = tok]
    /\ UNCHANGED <<authVars, chatVars>>

\* the token with another signature segment: other signature bytes, which
\* are a MAC under no key, or the same bytes with other unused bits in the
\* last character
Resigned(tok) ==
    {[tok EXCEPT !.sigKey = ""]} \cup {[tok EXCEPT !.pad = b] : b \in 1..3}

LabAlterSignature ==
    /\ lab.op = "issued"
    /\ lab.tok = lab.issued
    /\ \E tok \in Resigned(lab.issued) : lab' = [lab EXCEPT !.tok = tok]
    /\ UNCHANGED <<authVars, chatVars>>

\* the token with another header algorithm, and any signature segment
OtherMethods == {"none", "RS256", "ES256"}

LabAlterMethod ==
    /\ lab.op = "issued"
    /\ lab.tok = lab.issued
    /\ \E alg \in OtherMethods, k \in LabSecrets \cup {""} :
        lab' = [lab EXCEPT !.tok = [lab.issued EXCEPT !.alg = alg, !.sigKey = k]]
    /\ UNCHANGED <<authVars, chatVars>>

LabPass ==
    /\ lab.op \in {"issued", "validated"}
    /\ lab.clock < MaxClock
    /\ lab' = [lab EXCEPT !.clock = lab.clock + 1, !.op = "issued", !.key = "",
                    !.err = NoErr, !.claims = EmptyToken, !.sub = EmptyStr]
    /\ UNCHANGED <<authVars, chatVars>>

LabValidate ==
    /\ lab.op \in {"issued", "validated"}
    /\ \E key \in LabSecrets :
        LET late == ParseWithClaims(lab.tok, key, lab.clock) = "token has expired" IN
        IF lab.kind = "access"
        THEN LET v == ValidateAccessToken(lab.tok, key, lab.clock)
             IN  lab' = [lab EXCEPT !.op = "validated", !.key = key, !.err = v.err,
                             !.claims = v.claims, !.sub = EmptyStr,
                             !.lapsed = lab.lapsed \/ late]
        ELSE LET v == ValidateRefreshToken(lab.tok, key, lab.clock)
             IN  lab' = [lab EXCEPT !.op = "validated", !.key = key, !.err = v.err,
                             !.claims = EmptyToken, !.sub = v.sub,
                             !.lapsed = lab.lapsed \/ late]
    /\ UNCHANGED <<authVars, chatVars>>

LabHash ==
    /\ lab.op = "none"
    /\ \E password \in LabPasswords, salt \in Salts, strict \in BOOLEAN :
        IF strict /\ TooLong(password)
        THEN lab' = [NoLab EXCEPT !.op = "hash failed", !.password = password,
                         !.err = Wrapf("falha ao gerar hash", ErrBcrypt)]
        ELSE lab' = [NoLab EXCEPT !.op = "hashed", !.password = password,
                         !.hash = HashPassword(password, salt)]
    /\ UNCHANGED <<authVars, chatVars>>

LabCheck ==
    /\ lab.op \in {"hashed", "checked"}
    /\ \E guess \in LabPasswords, digest \in {lab.hash, NoHash} :
        lab' = [lab EXCEPT !.op = "checked", !.guess = guess, !.digest = digest,
                    !.match = CheckPassword(guess, digest)]
    /\ UNCHANGED <<authVars, chatVars>>

\* Go strings are bytes: a character outside ASCII takes a lead byte and
\* continuation bytes
LeadByte == "xC3"
ContByte == "xA9"
Repeat(ch, n) == [i \in 1..n |-> ch]
Accented(n) == [i \in 1..(2 * n) |-> IF i % 2 = 1 THEN LeadByte ELSE ContByte]

\* utf8.RuneCountInString: the characters of a string
RuneCount(str) == Cardinality({i \in DOMAIN str : str[i] # ContByte})

MaxEmailLen == 3   \* emails tried: every string of up to this length

LabUsernames ==
    {EmptyStr, Repeat("a", MinUsernameLen - 1), Repeat("a", MinUsernameLen),
     Repeat("a", MaxUsernameLen), Repeat("a", MaxUsernameLen + 1),
     Accented(MinUsernameLen - 1), Accented(MaxUsernameLen)}
LabEmailAddrs ==
    UNION {[1..n -> {"@", ".", "a"}] : n \in 0..MaxEmailLen}
LabNewPasswords ==
    {EmptyStr, Repeat("a", MinPasswordLen - 1), Repeat("a", MinPasswordLen),
     Accented(MinPasswordLen - 1)}

LabValidateInput ==
    /\ lab.op = "none"
    /\ \E username \in LabUsernames, email \in LabEmailAddrs, password \in LabNewPasswords :
        LET input == RegisterInput(username, email, password)
        IN  lab' = [NoLab EXCEPT !.op = "input validated", !.input = input,
                        !.err = validateRegisterInput(input)]
    /\ UNCHANGED <<authVars, chatVars>>

InitUtils == InitStore /\ faulty = FALSE

NextUtils ==
    \/ LabIssueAccess
    \/ LabIssueRefresh
    \/ LabAlterSignature
    \/ LabAlterMethod
    \/ LabPass
    \/ LabValidate
    \/ LabHash
    \/ LabCheck
    \/ LabValidateInput

SpecUtils == InitUtils /\ [][NextUtils]_vars

----------------------------------------------------------------------------

Registers(c) == c.op = "Register"
Logins(c) == c.op = "Login"
Refreshes(c) == c.op = "RefreshToken"
Logouts(c) == c.op = "Logout"

\* the signature of tok is a valid HMAC under secret
Verifies(tok, secret) ==
    tok.form = "jwt" /\ tok.alg \in HMACFamily /\ tok.sigKey = secret

RowOf(tok) == {r \in refresh_tokens : r.token = tok}

\* C1: a RefreshToken(t) call that starts after a Logout(t) call has returned
\* nil fails, whatever calls ran in between and also while t has not expired.
C1_RefreshAfterLogoutFails ==
    \A c \in InFlight :
        (Refreshes(c) /\ Done(c) /\ c.hist.revoked0) => ~Ok(c)

\* an issued, unexpired token was logged out and a later refresh of it is
\* turned down because its row is gone
C1_Witness ==
    \E c \in InFlight :
        /\ Refreshes(c) /\ Done(c) /\ c.hist.revoked0 /\ ~c.hist.expired0
        /\ c.input.token \in returned
        /\ Verifies(c.input.token, cfg.RefreshSecret)
        /\ c.res.err = Errorf("refresh token invalido ou expirado")

\* C2: RefreshToken(t) succeeds only if t verifies under the refresh secret,
\* t is not past its expiry and a row with token t is in the store, all as
\* the call starts; a call that fails hands back no access token.
C2_RefreshNeedsAllThree ==
    \A c \in InFlight :
        (Refreshes(c) /\ Done(c)) =>
            /\ Ok(c) => /\ Verifies(c.input.token, cfg.RefreshSecret)
                        /\ ~c.hist.expired0
                        /\ c.hist.present0
            /\ ~Ok(c) => c.res.tokens = NoPair

\* a refresh of a stored, unexpired, well-signed token succeeds
C2_Witness ==
    \E c \in InFlight :
        /\ Refreshes(c) /\ Ok(c)
        /\ c.hist.present0 /\ ~c.hist.expired0
        /\ c.res.tokens.AccessToken # EmptyToken

\* the call c took the step / the call d is what the step made
Moved(c) == CopiesIn(c, calls') < CopiesIn(c, calls)
Arrived(d) == CopiesIn(d, calls') > CopiesIn(d, calls)

\* the errors the existence checks of Register produce
ConflictErrors == {Errorf("email ja cadastrado"), Errorf("username ja cadastrado")}

\* C3: of two concurrent Register calls with the same username never both
\* succeed, and the one that loses, also when it loses at the insert, gets
\* the Conflict error of the existence checks.
C3_ConcurrentRegisterConflict ==
    /\ \A u1, u2 \in users : u1.username = u2.username => u1 = u2
    /\ \A c \in InFlight :
        ( /\ Registers(c) /\ Done(c) /\ ~Ok(c)
          /\ validateRegisterInput(c.input) = NoErr
          /\ ~c.hist.nameTaken0 /\ ~c.hist.emailTaken0
          /\ \E u \in users : u.username = c.input.username )
        => c.res.err \in ConflictErrors

\* C4: no two accounts share a username and no two accounts share an email.
C4_UniqueAccounts ==
    \A u1, u2 \in users :
        (u1.username = u2.username \/ u1.email = u2.email) => u1 = u2

\* two registrations raced past the existence checks and the table refused
\* the second insert
C4_Witness ==
    /\ users # {}
    /\ \E c \in InFlight :
        /\ Registers(c) /\ Done(c)
        /\ ~c.hist.nameTaken0 /\ ~c.hist.emailTaken0
        /\ c.res.err = Wrapf("erro ao criar usuario", ErrUnique)

Taken0(c) == c.hist.emailTaken0 \/ c.hist.nameTaken0

\* C5: a Register that starts when its email is registered fails with the
\* email Conflict error, one that starts when only its username is
\* registered fails with a Conflict error, and no step of such a call
\* changes the accounts or the refresh sessions.
C5_LaterRegisterConflicts ==
    /\ [](\A c \in InFlight :
            (Registers(c) /\ Done(c) /\ validateRegisterInput(c.input) = NoErr) =>
                /\ c.hist.emailTaken0 => c.res.err = Errorf("email ja cadastrado")
                /\ c.hist.nameTaken0 => c.res.err \in ConflictErrors)
    /\ [][\A c \in InFlight :
            (Registers(c) /\ Taken0(c) /\ Moved(c)) =>
                UNCHANGED <<users, refresh_tokens>>]_vars

\* a username registered under another email is refused
C5_Witness ==
    \E c \in InFlight :
        /\ Registers(c) /\ Done(c)
        /\ c.hist.nameTaken0 /\ ~c.hist.emailTaken0
        /\ c.res.err = Errorf("username ja cadastrado")
        /\ \E u \in users : u.username = c.input.username /\ u.email # c.input.email

InvalidCredentials == [NoResult EXCEPT !.err = Errorf("credenciais invalidas")]

WrongPassword(c) ==
    \E u \in users :
        u.email = c.input.email /\ ~CheckPassword(c.input.password, u.password_hash)

\* C6: a Login with a wrong password and a Login for an email without
\* account return one and the same result, the invalid-credentials error,
\* and no step of a Login that fails changes the refresh sessions.
C6_LoginFailuresAlike ==
    /\ [](\A c \in InFlight :
            (Logins(c) /\ Done(c) /\ RejectLogin(c.input) = NoErr
                /\ (GetUserByEmail(c.input.email) = {} \/ WrongPassword(c)))
            => c.res = InvalidCredentials)
    /\ [][\A c \in InFlight :
            (Logins(c) /\ Moved(c) /\ \E d \in BagToSet(calls') : Arrived(d) /\ ~Ok(d))
            => UNCHANGED <<users, refresh_tokens>>]_vars

\* a Login with a wrong password for a registered email was turned down
C6_Witness ==
    \E c \in InFlight :
        /\ Logins(c) /\ Done(c) /\ WrongPassword(c)
        /\ c.res = InvalidCredentials

\* the tokens issued so far that RefreshToken accepts now / after the step
AcceptedNow == {tok \in returned : Accepted(tok, users, refresh_tokens, now)}
AcceptedNext == {tok \in returned : Accepted(tok, users', refresh_tokens', now')}

\* C7: no step of a RefreshToken call, whether the call succeeds or fails,
\* changes the accounts or the refresh sessions, and every token that was
\* accepted before the step, the presented one included, is accepted after it.
C7_RefreshChangesNothing ==
    [][\A c \in InFlight :
        (Refreshes(c) /\ Moved(c)) =>
            /\ UNCHANGED <<users, refresh_tokens>>
            /\ RowOf(c.input.token) \subseteq refresh_tokens'
            /\ AcceptedNow \subseteq AcceptedNext]_vars

\* a refresh succeeded and its token, row in place, is accepted as before
C7_Witness ==
    \E c \in InFlight :
        /\ Refreshes(c) /\ Ok(c)
        /\ RowOf(c.input.token) # {}
        /\ c.input.token \in AcceptedNow

\* C8: a successful RefreshToken(t) returns t itself as the refresh token,
\* and an access token minted at the time of the call, signed with the
\* access secret, for the account whose id is the subject of t.
C8_RefreshReturnsSameToken ==
    \A c \in InFlight :
        (Refreshes(c) /\ Ok(c)) =>
            LET a == c.res.tokens.AccessToken IN
            /\ c.res.tokens.RefreshToken = c.input.token
            /\ ValidateAccessToken(a, cfg.AccessSecret, now).err = NoErr
            /\ a.iat = now /\ a.exp = now + AccessExpiration
            /\ a.user_id = c.input.token.sub
            /\ \E u \in users :
                /\ UUIDToString(u.id) = c.input.token.sub
                /\ a.username = u.username /\ a.email = u.email

\* a refresh of an issued token came back with that token and an access
\* token for its account
C8_Witness ==
    \E c \in InFlight :
        /\ Refreshes(c) /\ Ok(c)
        /\ c.input.token \in returned
        /\ c.res.tokens.RefreshToken = c.input.token
        /\ c.res.tokens.AccessToken.user_id = c.input.token.sub
        /\ c.res.tokens.AccessToken.form = "jwt"

\* C9: the step that completes a Register or a Login with success adds one
\* refresh session, the one holding the refresh token the call returns, and
\* keeps every session that was there and every token that was accepted;
\* every other step of a Register or a Login leaves the sessions alone.
C9_OneNewSession ==
    [][\A c \in InFlight :
        ((Registers(c) \/ Logins(c)) /\ Moved(c)) =>
            \A d \in BagToSet(calls') :
                Arrived(d) =>
                    IF Ok(d)
                    THEN /\ refresh_tokens \subseteq refresh_tokens'
                         /\ Cardinality(refresh_tokens' \ refresh_tokens) = 1
                         /\ \A r \in refresh_tokens' \ refresh_tokens :
                                /\ r.token = d.res.tokens.RefreshToken
                                /\ UUIDToString(r.user_id) = d.res.user.ID
                         /\ AcceptedNow \subseteq AcceptedNext
                    ELSE refresh_tokens' = refresh_tokens]_vars

\* a login succeeded while an earlier session of the same account is in
\* place and accepted
C9_Witness ==
    \E c \in InFlight :
        /\ Logins(c) /\ Ok(c)
        /\ RowOf(c.res.tokens.RefreshToken) # {}
        /\ \E r \in refresh_tokens :
            /\ r.token # c.res.tokens.RefreshToken
            /\ UUIDToString(r.user_id) = c.res.user.ID
            /\ r.token \in AcceptedNow

\* C10: a step of Logout(t) removes no session whose token is not t and at
\* most one session in all, changes no account, and every token other than t
\* that was accepted before the step is accepted after it.
C10_LogoutRemovesOnlyItsSession ==
    [][\A c \in InFlight :
        (Logouts(c) /\ Moved(c)) =>
            /\ users' = users
            /\ refresh_tokens' \subseteq refresh_tokens
            /\ \A r \in refresh_tokens \ refresh_tokens' : r.token = c.input.token
            /\ Cardinality(refresh_tokens \ refresh_tokens') <= 1
            /\ (AcceptedNow \ {c.input.token}) \subseteq AcceptedNext]_vars

\* a logout removed its session and another session of the same account is
\* in place and accepted
C10_Witness ==
    \E c \in InFlight :
        /\ Logouts(c) /\ Ok(c)
        /\ c.hist.present0 /\ RowOf(c.input.token) = {}
        /\ \E r \in refresh_tokens :
            /\ r.token # c.input.token
            /\ UUIDToString(r.user_id) = c.input.token.sub
            /\ r.token \in AcceptedNow

AccessAlongside(tok) ==
    {GenerateAccessToken(tok.sub, u.username, u.email, cfg.AccessSecret,
                         AccessExpiration, tok.iat, tok.jti) :
        u \in {x \in users : UUIDToString(x.id) = tok.sub}}

\* C12: an access token issued by Register or Login passes
\* ValidateAccessToken at every time before its expiry, whether or not the
\* refresh session issued with it is still in the store, and so does the
\* access token a RefreshToken call returns.
C12_AccessTokenOutlivesSession ==
    /\ \A tok \in returned : \A a \in AccessAlongside(tok) :
        now < a.exp =>
            LET v == ValidateAccessToken(a, cfg.AccessSecret, now) IN
            v.err = NoErr /\ v.claims = a
    /\ \A c \in InFlight :
        ((Registers(c) \/ Logins(c)) /\ Ok(c)) =>
            c.res.tokens.AccessToken \in AccessAlongside(c.res.tokens.RefreshToken)
    /\ \A c \in InFlight :
        (Refreshes(c) /\ Ok(c)) =>
            ValidateAccessToken(c.res.tokens.AccessToken, cfg.AccessSecret, now).err = NoErr

\* the session is logged out, its row is gone, and the access token issued
\* with it is unexpired and passes
C12_Witness ==
    \E tok \in returned \cap revoked :
        /\ RowOf(tok) = {}
        /\ \E a \in AccessAlongside(tok) :
            /\ now < a.exp
            /\ ValidateAccessToken(a, cfg.AccessSecret, now).err = NoErr

\* the error RefreshToken returns for a token without a row
InvalidToken == Errorf("refresh token invalido ou expirado")

\* C13: with a store that answers, every RefreshToken call that turns down
\* a non-empty token returns one and the same error, whether the token is
\* malformed, signed with another key, of another algorithm, expired, or
\* without a row.
C13_RefreshFailuresAlike ==
    \A c \in InFlight :
        (Refreshes(c) /\ Done(c) /\ ~Ok(c) /\ c.input.token # EmptyToken)
        => c.res.err = InvalidToken

\* C14: no error a Register, Login, RefreshToken or Logout call returns
\* carries the text of an error of the storage driver or of a signing or
\* hashing library.
C14_NoCauseAttached ==
    \A c \in InFlight : Done(c) => c.res.err.cause = ""

\* the token as issued was validated with the secret it was issued with
ValidatedAsIssued ==
    lab.op = "validated" /\ lab.tok = lab.issued /\ lab.key = lab.secret

ExpiredError ==
    IF lab.kind = "access"
    THEN Wrapf("erro ao parsear token", Errorf("token has expired"))
    ELSE Wrapf("erro ao parsear refresh token", Errorf("token has expired"))

\* C15 as stated: a token issued at t0 with lifetime ttl is accepted at the
\* times from t0 to t0+ttl, t0+ttl included, and rejected at every later
\* time; once rejected for expiry it is not accepted again.
C15_AcceptedThroughExpiry ==
    ValidatedAsIssued =>
        /\ lab.clock <= lab.t0 + lab.ttl => lab.err = NoErr
        /\ lab.clock > lab.t0 + lab.ttl => lab.err # NoErr
        /\ lab.lapsed => lab.err # NoErr

\* C15, amended: a token issued at t0 with lifetime ttl is accepted at the
\* times from t0 up to but not including t0+ttl, and rejected, as expired,
\* at t0+ttl and at every later time; once rejected for expiry it is not
\* accepted again.
C15_AcceptedUntilExpiry ==
    ValidatedAsIssued =>
        /\ lab.clock < lab.t0 + lab.ttl => lab.err = NoErr
        /\ lab.clock >= lab.t0 + lab.ttl => lab.err = ExpiredError
        /\ lab.lapsed => lab.err # NoErr

\* a refresh token validated at the instant of its expiry was rejected
C15_Witness ==
    /\ ValidatedAsIssued
    /\ lab.kind = "refresh"
    /\ lab.clock = lab.t0 + lab.ttl
    /\ lab.err = ExpiredError /\ lab.lapsed

Unverifiable ==
    IF lab.kind = "access"
    THEN Wrapf("erro ao parsear token", Errorf("token is unverifiable"))
    ELSE Wrapf("erro ao parsear refresh token", Errorf("token is unverifiable"))

\* C16: ValidateAccessToken and ValidateRefreshToken reject every token
\* whose header algorithm is outside the HMAC family, whatever its claims,
\* its signature and the secret, and their key function returns the secret
\* for no such token.
C16_NonHMACRejected ==
    /\ (lab.op = "validated" /\ lab.tok.alg \notin HMACFamily) => lab.err # NoErr
    /\ \A secret \in LabSecrets :
        (lab.tok.form = "jwt" /\ Keyfunc(lab.tok, secret).given)
        => lab.tok.alg \in HMACFamily

\* an unexpired token with the algorithm none was validated and rejected
\* as unverifiable
C16_Witness ==
    /\ lab.op = "validated"
    /\ lab.tok.alg = "none" /\ lab.tok.sigKey = ""
    /\ lab.clock < lab.tok.exp
    /\ lab.err = Unverifiable

ValidUTF8(str) == \A i \in DOMAIN str : str[i] # BadByte

\* an access token as issued was validated, before its expiry, with the
\* secret it was issued with
RoundTrip ==
    /\ ValidatedAsIssued
    /\ lab.kind = "access"
    /\ lab.clock < lab.t0 + lab.ttl

ClaimsEqualInputs ==
    /\ lab.err = NoErr
    /\ lab.claims.user_id = lab.userID
    /\ lab.claims.username = lab.username
    /\ lab.claims.email = lab.email

\* C17 as stated: for every id, username, email, secret and positive ttl,
\* ValidateAccessToken of the token GenerateAccessToken made, with the same
\* secret, before expiry, succeeds with claims equal to the inputs.
C17_RoundTripOfAnyStrings == RoundTrip => ClaimsEqualInputs

\* C17, amended: the same for every id, username and email that are valid
\* UTF-8.
C17_RoundTripOfValidStrings ==
    (RoundTrip /\ ValidUTF8(lab.userID) /\ ValidUTF8(lab.username) /\ ValidUTF8(lab.email))
    => ClaimsEqualInputs

\* a token for ana was validated a second after its issue and gave back
\* ana's id, username and email
C17_Witness ==
    /\ RoundTrip
    /\ lab.username = S_ana /\ lab.email = S_anaMail /\ lab.userID # EmptyStr
    /\ lab.clock > lab.t0
    /\ ClaimsEqualInputs

\* C18: CheckPassword of a guess and the digest HashPassword made of a
\* password is true when the guess is the password and false when it is
\* another string, and false, not an error, for a malformed digest.
C18_HashMatchesOnlyItsPassword ==
    lab.op = "checked" =>
        IF lab.digest = lab.hash
        THEN lab.match = (lab.guess = lab.password)
        ELSE lab.match = FALSE

\* C19: a token made from an issued access or refresh token by changing
\* its signature segment is rejected by the validator, and a validator
\* accepts no token that was not signed with the secret it is given.
C19_AlteredSignatureRejected ==
    lab.op = "validated" =>
        /\ lab.tok \in Resigned(lab.issued) => lab.err # NoErr
        /\ lab.err = NoErr => lab.tok.sigKey = lab.key

EmailConflict == Errorf("email ja cadastrado")
UsernameConflict == Errorf("username ja cadastrado")
EmailLookupFailed == Wrapf("erro ao verificar email", ErrConn)
UsernameLookupFailed == Wrapf("erro ao verificar username", ErrConn)

\* what a lookup step of Register may make of the call: go on to the next
\* position only if no row is found, end with the conflict error only if a
\* row is found, or end with the lookup's storage error
LookupStep(d, found, next, conflict, failure) ==
    /\ UNCHANGED <<users, refresh_tokens>>
    /\ \/ d.pc = next /\ ~found
       \/ d.pc = "done" /\ d.res.err = conflict /\ found
       \/ d.pc = "done" /\ d.res.err = failure

\* C20: the email lookup of Register, and after it the username lookup,
\* lets the call go on only when no row is found; a found row ends the call
\* with the conflict error of that lookup, so with the email conflict when
\* both are taken, and a storage error ends it with an error; neither step
\* changes the accounts or the sessions.
C20_LookupsGateRegister ==
    /\ [][\A c \in InFlight : \A d \in BagToSet(calls') :
            (Registers(c) /\ Moved(c) /\ Arrived(d)) =>
                /\ c.pc = "reg_email" =>
                    LookupStep(d, GetUserByEmail(c.input.email) # {},
                               "reg_username", EmailConflict, EmailLookupFailed)
                /\ c.pc = "reg_username" =>
                    LookupStep(d, GetUserByUsername(c.input.username) # {},
                               "reg_create", UsernameConflict, UsernameLookupFailed)]_vars
    /\ [](\A c \in InFlight :
            (Registers(c) /\ Done(c) /\ c.hist.emailTaken0 /\ c.hist.nameTaken0
                /\ validateRegisterInput(c.input) = NoErr)
            => c.res.err \in {EmailConflict, EmailLookupFailed})

\* a Register whose email and username were both taken ended with the
\* email conflict
C20_Witness ==
    \E c \in InFlight :
        /\ Registers(c) /\ Done(c)
        /\ c.hist.emailTaken0 /\ c.hist.nameTaken0
        /\ c.res.err = EmailConflict

\* a reference substring test for a one-byte substring
HasByte(str, ch) == \E i \in DOMAIN str : str[i] = ch

\* C21: validateRegisterInput accepts an input exactly when the username
\* has 3 to 50 characters, the email has an '@' and a '.', found as a
\* reference substring test finds them, and the password has at least 6
\* characters.
C21_ValidationByCharacters ==
    lab.op = "input validated" =>
        (lab.err = NoErr <=>
            /\ RuneCount(lab.input.username) >= MinUsernameLen
            /\ RuneCount(lab.input.username) <= MaxUsernameLen
            /\ HasByte(lab.input.email, "@") /\ HasByte(lab.input.email, ".")
            /\ RuneCount(lab.input.password) >= MinPasswordLen)

\* C22: a revoked token stays revoked: once Logout has deleted the row of a
\* token, no step of Register, Login, RefreshToken or Logout inserts a row
\* with that token again, and every RefreshToken call that starts afterwards
\* fails.
C22_RevokedForGood ==
    /\ [][\A r \in refresh_tokens' \ refresh_tokens : r.token \notin revoked]_vars
    /\ [](\A tok \in revoked : RowOf(tok) = {})
    /\ [](\A c \in InFlight :
            (Refreshes(c) /\ Done(c) /\ c.hist.revoked0) =>
                /\ ~Ok(c)
                /\ RowOf(c.input.token) = {})

\* an issued token was logged out, its account has opened a later session,
\* and a refresh of the logged-out token, unexpired, is turned down
C22_Witness ==
    \E c \in InFlight :
        /\ Refreshes(c) /\ Done(c) /\ ~Ok(c)
        /\ c.hist.revoked0 /\ ~c.hist.expired0 /\ ~c.hist.present0
        /\ c.input.token \in returned
        /\ \E r \in refresh_tokens :
            /\ r.user_id = ScanUUID(c.input.token.sub)
            /\ r.token.jti > c.input.token.jti

\* C23: a RefreshToken call given a token past its expiry whose row is still
\* in the store fails and hands back no token; the row is there when the call
\* is over, and a row leaves the store only in a step of a Logout of its
\* token: the clock, Register, Login and RefreshToken remove none.
C23_ExpiredRejectedRowKept ==
    /\ [](\A c \in InFlight :
            (Refreshes(c) /\ Done(c) /\ c.hist.expired0 /\ c.hist.present0) =>
                /\ ~Ok(c) /\ c.res.tokens = NoPair
                /\ (~c.hist.revoked0 /\ c.input.token \notin revoked) =>
                       RowOf(c.input.token) # {})
    /\ [][\A r \in refresh_tokens \ refresh_tokens' :
            \E c \in InFlight : Logouts(c) /\ Moved(c) /\ c.input.token = r.token]_vars

\* an issued token, its row in place, was presented after its expiry and
\* turned down as expired, and the row, itself past expires_at, is still there
C23_Witness ==
    \E c \in InFlight :
        /\ Refreshes(c) /\ Done(c) /\ c.hist.expired0 /\ c.hist.present0
        /\ c.input.token \in returned
        /\ c.res.err = Wrapf("refresh token invalido",
                             Wrapf("erro ao parsear refresh token", Errorf("token has expired")))
        /\ \E r \in RowOf(c.input.token) : r.expires_at <= now

C25_SessionsOwnedBySubject ==
    \A r \in refresh_tokens :
        /\ \E u \in users : u.id = r.user_id
        /\ r.token.sub = UUIDToString(r.user_id)
        /\ ScanUUID(r.token.sub) = r.user_id

\* two accounts each have a session of their own
C25_Witness ==
    \E r1, r2 \in refresh_tokens :
        /\ r1.user_id # r2.user_id
        /\ \A r \in {r1, r2} :
            /\ r.token \in returned
            /\ \E u \in users : u.id = r.user_id /\ r.token.sub = UUIDToString(u.id)

\* the error says the call failed after CreateUser had answered
PastInsert(c) ==
    c.res.err.msg \in {"erro ao gerar tokens", "erro ao salvar refresh token"}

\* C26: a Register call that returns an error leaves the accounts as they
\* were, whichever step failed: the step that fails changes no account, and
\* when the failure comes after the insert, the account the call inserted
\* (the one with its username and email) is not in the store.
C26_FailedRegisterAddsNoAccount ==
    /\ [][\A d \in BagToSet(calls') :
            (Registers(d) /\ Arrived(d) /\ Done(d) /\ ~Ok(d)) => users' = users]_vars
    /\ [](\A c \in InFlight :
            (Registers(c) /\ Done(c) /\ ~Ok(c) /\ PastInsert(c)) =>
                \A u \in users :
                    ~(u.username = c.input.username /\ u.email = c.input.email))

----------------------------------------------------------------------------
(* The service under each configuration that Config.Validate accepts *)

\* Config.Validate
Validate(c) ==
    IF c.AccessSecret = "" THEN Errorf("JWT_ACCESS_SECRET e obrigatorio")
    ELSE IF c.RefreshSecret = "" THEN Errorf("JWT_REFRESH_SECRET e obrigatorio")
    ELSE NoErr

\* what JWT_ACCESS_SECRET and JWT_REFRESH_SECRET may be set to
Configs ==
    [AccessSecret : {"", "access-key"}, RefreshSecret : {"", "access-key", "refresh-key"}]

\* config.Load: the service starts only with a configuration Validate accepts
InitConfigs ==
    /\ lab = NoLab
    /\ friendships = {}
    /\ messages = {}
    /\ bus = [producer |-> TRUE, events |-> <<>>]
    /\ chat = EmptyBag
    /\ users = {}
    /\ refresh_tokens = {}
    /\ now = 0
    /\ calls = EmptyBag
    /\ cfg \in {c \in Configs : Validate(c) = NoErr}
    /\ returned = {}
    /\ revoked = {}
    /\ faulty = FALSE

\* the access tokens handed out with the refresh tokens so far
AccessTokens == UNION {AccessAlongside(tok) : tok \in returned}

\* a caller presents an access token to RefreshToken
RefreshStartAccess ==
    /\ \E tok \in AccessTokens :
        LET input == [NoInput EXCEPT !.token = tok]
            c == [NewCall("RefreshToken", input, "ref_get") EXCEPT
                    !.userID = ValidateRefreshToken(tok, cfg.RefreshSecret, now).sub]
        IN Begin(c, RejectRefresh(tok, now))
    /\ UNCHANGED <<users, refresh_tokens, now, cfg, faulty, lab, chatVars, returned, revoked>>

NextConfigs == Next \/ RefreshStartAccess

SpecConfigs == InitConfigs /\ [][NextConfigs]_vars

\* C27: under every configuration that Config.Validate accepts, a token
\* issued by GenerateRefreshToken is never accepted by ValidateAccessToken,
\* and a token issued by GenerateAccessToken never makes RefreshToken succeed.
C27_SigningDomainsSeparate ==
    /\ \A tok \in returned :
        ValidateAccessToken(tok, cfg.AccessSecret, now).err # NoErr
    /\ \A c \in InFlight :
        (Refreshes(c) /\ Ok(c)) => c.input.token \notin AccessTokens

----------------------------------------------------------------------------
(* UserService.AddFriend / AcceptFriend over the friendships table.  The   *)
(* calls in flight are in chat; as with AuthService a call is split at its *)
(* store calls and a finished call waits, with its result, for its caller. *)

MaxChatCalls == 2   \* calls of UserService / MessageService in flight at once
MaxFriendships == 2 \* rows of friendships

\* utils.StringToUUID over uuid.Parse, which also reads the urn:uuid: form
StringToUUID(str) ==
    IF Len(str) = 2 /\ str[1] \in {"uuid:", "urn:uuid:"}
                    /\ \E n \in DOMAIN Digit : Digit[n] = str[2]
    THEN [uuid |-> MkUUID(CHOOSE n \in DOMAIN Digit : Digit[n] = str[2]), err |-> NoErr]
    ELSE [uuid |-> NullUUID, err |-> Wrapf("UUID invalido", Errorf("invalid UUID format"))]

NoFriendship == [id |-> 0, user_id |-> NullUUID, friend_id |-> NullUUID, status |-> ""]

\* SELECT * FROM friendships WHERE (user_id = $1 AND friend_id = $2)
\*                              OR (user_id = $2 AND friend_id = $1)
GetFriendship(userID, friendID) ==
    {f \in friendships : \/ (f.user_id = userID /\ f.friend_id = friendID)
                         \/ (f.user_id = friendID /\ f.friend_id = userID)}

\* INSERT INTO friendships (user_id, friend_id, status) ... RETURNING *
CreateFriendship(userID, friendID, status) ==
    [id |-> Cardinality(friendships) + 1, user_id |-> userID, friend_id |-> friendID,
     status |-> status]

\* UPDATE friendships SET status = $2 WHERE id = $1: the table afterwards
UpdateFriendshipStatus(id, status) ==
    {IF f.id = id THEN [f EXCEPT !.status = status] ELSE f : f \in friendships}

S_idA == UUIDToString(MkUUID(1))
S_idB == UUIDToString(MkUUID(2))
S_idC == UUIDToString(MkUUID(3))
S_notAnID == <<"x">>
FriendIDs == {S_idA, S_idB, S_idC, S_notAnID}

BlankFriendCall ==
    [op |-> "none", pc |-> "none", UserID |-> EmptyStr, FriendID |-> EmptyStr,
     userUUID |-> NullUUID, friendUUID |-> NullUUID, friendship |-> NoFriendship,
     err |-> NoErr, accepted0 |-> FALSE]

ChatInFlight == BagToSet(chat)
ChatQuiet == \A c \in ChatInFlight : c.pc # "done"
ChatFailed(c, e) ==
    [c EXCEPT !.pc = "done", !.friendship = NoFriendship, !.err = e]
ChatSucceeded(c) ==
    [c EXCEPT !.pc = "done", !.friendship = NoFriendship, !.err = NoErr]
ChatBegin(c, e) ==
    /\ ChatQuiet
    /\ BagCardinality(chat) < MaxChatCalls
    /\ chat' = chat (+) SetToBag({IF e = NoErr THEN c ELSE ChatFailed(c, e)})
ChatAt(c, op, pc) == ChatQuiet /\ c.op = op /\ c.pc = pc
ChatSet(c, d) == chat' = (chat (-) SetToBag({c})) (+) SetToBag({d})

\* what AddFriend returns before its first store call
RejectAddFriend(UserID, FriendID) ==
    IF UserID = FriendID
    THEN Errorf("nao e possivel adicionar a si mesmo como amigo")
    ELSE IF StringToUUID(UserID).err # NoErr
    THEN Wrapf("ID de usuario invalido", StringToUUID(UserID).err)
    ELSE IF StringToUUID(FriendID).err # NoErr
    THEN Wrapf("ID de amigo invalido", StringToUUID(FriendID).err)
    ELSE NoErr

NewFriendCall(op, pc0, UserID, FriendID) ==
    [BlankFriendCall EXCEPT !.op = op, !.pc = pc0, !.UserID = UserID, !.FriendID = FriendID,
        !.userUUID = StringToUUID(UserID).uuid, !.friendUUID = StringToUUID(FriendID).uuid,
        !.accepted0 = \E f \in GetFriendship(StringToUUID(UserID).uuid,
                                             StringToUUID(FriendID).uuid) :
                          f.status = "accepted"]

AddFriendStart ==
    /\ \E UserID \in FriendIDs, FriendID \in FriendIDs :
        ChatBegin(NewFriendCall("AddFriend", "add_get", UserID, FriendID),
                  RejectAddFriend(UserID, FriendID))
    /\ UNCHANGED <<authVars, lab, friendships, messages, bus>>

AddFriendGet(c) ==
    /\ ChatAt(c, "AddFriend", "add_get")
    /\ \E store \in Outcomes :
        IF store = "fail"
        THEN ChatSet(c, ChatFailed(c, Wrapf("erro ao verificar amizade", ErrConn)))
        ELSE IF GetFriendship(c.userUUID, c.friendUUID) # {}
        THEN ChatSet(c, ChatFailed(c, Errorf("solicitacao de amizade ja existe")))
        ELSE ChatSet(c, [c EXCEPT !.pc = "add_create"])
    /\ UNCHANGED <<authVars, lab, friendships, messages, bus>>

AddFriendCreate(c) ==
    /\ ChatAt(c, "AddFriend", "add_create")
    /\ Cardinality(friendships) < MaxFriendships
    /\ \E store \in Outcomes :
        IF store = "fail"
        THEN /\ ChatSet(c, ChatFailed(c, Wrapf("erro ao criar solicitacao de amizade", ErrConn)))
             /\ UNCHANGED friendships
        ELSE /\ friendships' = friendships \cup
                    {CreateFriendship(c.userUUID, c.friendUUID, "pending")}
             /\ ChatSet(c, ChatSucceeded(c))
    /\ UNCHANGED <<authVars, lab, messages, bus>>

\* what AcceptFriend returns before its first store call
RejectAcceptFriend(UserID, FriendID) ==
    IF StringToUUID(UserID).err # NoErr
    THEN Wrapf("ID de usuario invalido", StringToUUID(UserID).err)
    ELSE IF StringToUUID(FriendID).err # NoErr
    THEN Wrapf("ID de amigo invalido", StringToUUID(FriendID).err)
    ELSE NoErr

AcceptFriendStart ==
    /\ \E UserID \in FriendIDs, FriendID \in FriendIDs :
        ChatBegin(NewFriendCall("AcceptFriend", "acc_get", UserID, FriendID),
                  RejectAcceptFriend(UserID, FriendID))
    /\ UNCHANGED <<authVars, lab, friendships, messages, bus>>

AcceptFriendGet(c) ==
    /\ ChatAt(c, "AcceptFriend", "acc_get")
    /\ \E store \in Outcomes :
        LET found == GetFriendship(c.friendUUID, c.userUUID)
        IN  IF store = "fail"
            THEN ChatSet(c, ChatFailed(c, Wrapf("erro ao buscar amizade", ErrConn)))
            ELSE IF found = {}
            THEN ChatSet(c, ChatFailed(c, Errorf("solicitacao de amizade nao encontrada")))
            ELSE \E friendship \in found :
                IF friendship.status = "accepted"
                THEN ChatSet(c, ChatFailed(c, Errorf("amizade ja aceita")))
                ELSE ChatSet(c, [c EXCEPT !.pc = "acc_update", !.friendship = friendship])
    /\ UNCHANGED <<authVars, lab, friendships, messages, bus>>

AcceptFriendUpdate(c) ==
    /\ ChatAt(c, "AcceptFriend", "acc_update")
    /\ \E store \in Outcomes :
        IF store = "fail"
        THEN /\ ChatSet(c, ChatFailed(c, Wrapf("erro ao aceitar amizade", ErrConn)))
             /\ UNCHANGED friendships
        ELSE /\ friendships' = UpdateFriendshipStatus(c.friendship.id, "accepted")
             /\ ChatSet(c, ChatSucceeded(c))
    /\ UNCHANGED <<authVars, lab, messages, bus>>

ChatReturn(c) ==
    /\ c.pc = "done"
    /\ chat' = chat (-) SetToBag({c})
    /\ UNCHANGED <<authVars, lab, friendships, messages, bus>>

InitFriends == InitStore /\ faulty = TRUE

NextFriends ==
    \/ AddFriendStart
    \/ \E c \in ChatInFlight : AddFriendGet(c)
    \/ \E c \in ChatInFlight : AddFriendCreate(c)
    \/ AcceptFriendStart
    \/ \E c \in ChatInFlight : AcceptFriendGet(c)
    \/ \E c \in ChatInFlight : AcceptFriendUpdate(c)
    \/ \E c \in ChatInFlight : ChatReturn(c)

SpecFriends == InitFriends /\ [][NextFriends]_vars

ChatMoved(c) == CopiesIn(c, chat') < CopiesIn(c, chat)
Accepts(c) == c.op = "AcceptFriend"

\* the row that f has become
After(f) == {g \in friendships' : g.id = f.id}

\* C28: a pending request from A to B becomes 'accepted' only in a step of
\* an AcceptFriend call made by B, never in one made by A; an AcceptFriend
\* between two users whose friendship is accepted fails, and an accepted
\* row stays accepted.
C28_OnlyAddresseeAccepts ==
    /\ [][\A f \in friendships :
            (f.status = "pending" /\ \E g \in After(f) : g.status = "accepted") =>
                \E c \in ChatInFlight :
                    Accepts(c) /\ ChatMoved(c) /\ c.userUUID = f.friend_id]_vars
    /\ [][\A f \in friendships :
            f.status = "accepted" => \A g \in After(f) : g.status = "accepted"]_vars
    /\ [](\A c \in ChatInFlight :
            (Accepts(c) /\ c.pc = "done" /\ c.accepted0) => c.err # NoErr)

----------------------------------------------------------------------------
(* MessageService.SendMessage over the messages table and the producer *)

MaxMessages == 2        \* rows of messages
MaxContentLen == 5000

NoMessage ==
    [id |-> NullUUID, sender_id |-> NullUUID, receiver_id |-> NullUUID,
     content |-> EmptyStr, status |-> "", created_at |-> NoDate]
NoMessageResp ==
    [ID |-> EmptyStr, SenderID |-> EmptyStr, ReceiverID |-> EmptyStr,
     Content |-> EmptyStr, Status |-> ""]

SendMessageInput(SenderID, ReceiverID, Content) ==
    [SenderID |-> SenderID, ReceiverID |-> ReceiverID, Content |-> Content]

S_hi == <<"h", "i">>
SendMessageInputs ==
    {SendMessageInput(S_idA, S_idB, S_hi), SendMessageInput(S_idB, S_idA, S_raw),
     SendMessageInput(EmptyStr, S_idB, S_hi), SendMessageInput(S_idA, EmptyStr, S_hi),
     SendMessageInput(S_idA, S_idA, S_hi), SendMessageInput(S_idA, S_idB, EmptyStr),
     SendMessageInput(S_idA, S_idB, Repeat("a", MaxContentLen + 1)),
     SendMessageInput(S_notAnID, S_idB, S_hi), SendMessageInput(S_idA, S_notAnID, S_hi)}

validateSendMessageInput(input) ==
    IF input.SenderID = EmptyStr THEN Errorf("sender_id e obrigatorio")
    ELSE IF input.ReceiverID = EmptyStr THEN Errorf("receiver_id e obrigatorio")
    ELSE IF input.SenderID = input.ReceiverID
        THEN Errorf("nao e possivel enviar mensagem para si mesmo")
    ELSE IF input.Content = EmptyStr THEN Errorf("conteudo da mensagem e obrigatorio")
    ELSE IF Len(input.Content) > MaxContentLen
        THEN Errorf("mensagem muito longa (maximo 5000 caracteres)")
    ELSE NoErr

\* what SendMessage returns before its store call
RejectSendMessage(input) ==
    IF validateSendMessageInput(input) # NoErr THEN validateSendMessageInput(input)
    ELSE IF StringToUUID(input.SenderID).err # NoErr
    THEN Wrapf("sender_id invalido", StringToUUID(input.SenderID).err)
    ELSE IF StringToUUID(input.ReceiverID).err # NoErr
    THEN Wrapf("receiver_id invalido", StringToUUID(input.ReceiverID).err)
    ELSE NoErr

\* INSERT INTO messages (sender_id, receiver_id, content, status) ... RETURNING *
CreateMessage(senderID, receiverID, content, status) ==
    [id |-> MkUUID(Cardinality(messages) + 1), sender_id |-> senderID,
     receiver_id |-> receiverID, content |-> content, status |-> status,
     created_at |-> now]

\* the event SendMessage hands to the producer: topic, key, and the JSON of
\* kafkaMessage, whose strings json.Marshal makes valid UTF-8
KafkaMessage(input, message) ==
    [topic |-> "chat-messages", key |-> input.ReceiverID,
     value |-> [id |-> UUIDToString(message.id), sender_id |-> ToValidUTF8(input.SenderID),
                receiver_id |-> ToValidUTF8(input.ReceiverID),
                content |-> ToValidUTF8(input.Content), timestamp |-> message.created_at]]

MessageResponse(message) ==
    [ID |-> UUIDToString(message.id), SenderID |-> UUIDToString(message.sender_id),
     ReceiverID |-> UUIDToString(message.receiver_id), Content |-> message.content,
     Status |-> message.status]

\* a call of SendMessage: position, locals, result, and what it has done
\* (inserted: CreateMessage answered; publish: what became of producer.SendMessage)
BlankMessageCall ==
    [op |-> "none", pc |-> "none",
     input |-> SendMessageInput(EmptyStr, EmptyStr, EmptyStr),
     senderUUID |-> NullUUID, receiverUUID |-> NullUUID, message |-> NoMessage,
     err |-> NoErr, resp |-> NoMessageResp, inserted |-> FALSE, publish |-> "none"]

MsgFailed(c, e) == [c EXCEPT !.pc = "done", !.message = NoMessage, !.err = e]
MsgSucceeded(c, resp) ==
    [c EXCEPT !.pc = "done", !.message = NoMessage, !.err = NoErr, !.resp = resp]

SendMessageStart ==
    /\ ChatQuiet
    /\ BagCardinality(chat) < MaxChatCalls
    /\ \E input \in SendMessageInputs :
        LET c == [BlankMessageCall EXCEPT !.op = "SendMessage", !.pc = "msg_create",
                      !.input = input,
                      !.senderUUID = StringToUUID(input.SenderID).uuid,
                      !.receiverUUID = StringToUUID(input.ReceiverID).uuid]
            e == RejectSendMessage(input)
        IN  chat' = chat (+) SetToBag({IF e = NoErr THEN c ELSE MsgFailed(c, e)})
    /\ UNCHANGED <<authVars, lab, friendships, messages, bus>>

SendMessageCreate(c) ==
    /\ ChatAt(c, "SendMessage", "msg_create")
    /\ Cardinality(messages) < MaxMessages
    /\ \E store \in Outcomes :
        LET message == CreateMessage(c.senderUUID, c.receiverUUID, c.input.Content, "sent")
        IN  IF store = "fail"
            THEN /\ ChatSet(c, MsgFailed(c, Wrapf("erro ao salvar mensagem", ErrConn)))
                 /\ UNCHANGED messages
            ELSE /\ messages' = messages \cup {message}
                 /\ ChatSet(c, [c EXCEPT !.pc = "msg_publish", !.message = message,
                                         !.inserted = TRUE])
    /\ UNCHANGED <<authVars, lab, friendships, bus>>

\* faulty variant: a failed publish fails the call
SendMessagePublish_Strict(c) ==
    /\ ChatAt(c, "SendMessage", "msg_publish")
    /\ IF ~bus.producer
       THEN /\ ChatSet(c, MsgSucceeded([c EXCEPT !.publish = "skipped"],
                                       MessageResponse(c.message)))
            /\ UNCHANGED bus
       ELSE \E send \in Outcomes :
            IF send = "fail"
            THEN /\ ChatSet(c, MsgFailed([c EXCEPT !.publish = "failed"],
                                         Wrapf("erro ao enviar para Kafka", ErrConn)))
                 /\ UNCHANGED bus
            ELSE /\ bus' = [bus EXCEPT !.events = Append(@, KafkaMessage(c.input, c.message))]
                 /\ ChatSet(c, MsgSucceeded([c EXCEPT !.publish = "sent"],
                                            MessageResponse(c.message)))
    /\ UNCHANGED <<authVars, lab, friendships, messages>>

SendMessagePublish(c) ==
    /\ ChatAt(c, "SendMessage", "msg_publish")
    /\ IF ~bus.producer
       THEN /\ ChatSet(c, MsgSucceeded([c EXCEPT !.publish = "skipped"],
                                       MessageResponse(c.message)))
            /\ UNCHANGED bus
       ELSE \E send \in Outcomes :
            IF send = "fail"
            THEN /\ ChatSet(c, MsgSucceeded([c EXCEPT !.publish = "failed"],
                                            MessageResponse(c.message)))
                 /\ UNCHANGED bus
            ELSE /\ bus' = [bus EXCEPT !.events = Append(@, KafkaMessage(c.input, c.message))]
                 /\ ChatSet(c, MsgSucceeded([c EXCEPT !.publish = "sent"],
                                            MessageResponse(c.message)))
    /\ UNCHANGED <<authVars, lab, friendships, messages>>

\* NewMessageService, with a producer or with nil
InitMessages ==
    /\ lab = NoLab
    /\ users = {}
    /\ refresh_tokens = {}
    /\ now = 0
    /\ calls = EmptyBag
    /\ cfg = [AccessSecret |-> "access-key", RefreshSecret |-> "refresh-key"]
    /\ returned = {}
    /\ revoked = {}
    /\ faulty = TRUE
    /\ friendships = {}
    /\ messages = {}
    /\ chat = EmptyBag
    /\ bus \in {[producer |-> p, events |-> <<>>] : p \in BOOLEAN}

NextMessages ==
    \/ SendMessageStart
    \/ \E c \in ChatInFlight : SendMessageCreate(c)
    \/ \E c \in ChatInFlight : SendMessagePublish(c)
    \/ \E c \in ChatInFlight : ChatReturn(c)

SpecMessages == InitMessages /\ [][NextMessages]_vars

Sends(c) == c.op = "SendMessage"

\* C29: SendMessage hands an event to the producer only after the message
\* row is in the table, and its result follows the insert alone: when the
\* insert succeeds the call succeeds with status 'sent', whether the publish
\* succeeds, fails or is skipped; when the call fails nothing of it is
\* published and no row is inserted.
C29_PublishAfterPersist ==
    /\ [][bus' # bus =>
            \E c \in ChatInFlight :
                /\ Sends(c) /\ ChatMoved(c) /\ c.inserted
                /\ c.message \in messages
                /\ bus' = [bus EXCEPT !.events = Append(@, KafkaMessage(c.input, c.message))]]_vars
    /\ [](\A i \in DOMAIN bus.events :
            \E row \in messages : UUIDToString(row.id) = bus.events[i].value.id)
    /\ [](\A c \in ChatInFlight :
            (Sends(c) /\ c.pc = "done") =>
                /\ c.err = NoErr <=> c.inserted
                /\ c.inserted =>
                    /\ c.resp.Status = "sent"
                    /\ \E row \in messages : c.resp = MessageResponse(row)
                /\ ~c.inserted => c.publish = "none" /\ c.resp = NoMessageResp)

\* a message was inserted, its publish failed, and the call succeeded with
\* status 'sent'; the producer has no event for it
C29_Witness ==
    \E c \in ChatInFlight :
        /\ Sends(c) /\ c.pc = "done" /\ c.inserted /\ c.publish = "failed"
        /\ c.err = NoErr /\ c.resp.Status = "sent"
        /\ \E row \in messages : c.resp = MessageResponse(row)
        /\ \A i \in DOMAIN bus.events : bus.events[i].value.id # c.resp.ID

====
